---- MODULE Spec2Model ----
(***************************************************************************)
(* Model of the SAM4 embedded flash controller driver (efc.c / efc.h):     *)
(* efc_perform_read_sequence and efc_perform_fcr running against the       *)
(* EEFC register block (EEFC_FMR, EEFC_FCR, EEFC_FSR).                     *)
(*                                                                         *)
(* A 32-bit word is modelled as the set of its set bit positions           *)
(* (a subset of 0..31), so |, &, ~ and << keep their 32-bit width.         *)
(***************************************************************************)
EXTENDS Integers, Sequences, FiniteSets, TLC

\* ------------------------------------------------------------------ words
WordBits == 0..31

\* the word holding the natural number n (n < 2^31)
Word(n) == {i \in 0..30 : (n \div (2^i)) % 2 = 1}

BitOr(a, b) == a \cup b
BitAnd(a, b) == a \cap b
BitNot(a) == WordBits \ a
\* a << n on 32 bits: bits shifted past bit 31 are lost
Shl(a, n) == {i + n : i \in a} \cap WordBits
\* the field of width w at position pos, as a word
Field(a, pos, w) == {i - pos : i \in (a \cap (pos..(pos + w - 1)))}

\* ------------------------------------------------- efc.h / efc.c constants
EFC_RC_OK == 0
EFC_RC_INVALID == 2

EFC_FCMD_GETD == 0
EFC_FCMD_WP == 1
EFC_FCMD_WPL == 2
EFC_FCMD_EWP == 3
EFC_FCMD_EWPL == 4
EFC_FCMD_EA == 5
\* variant: EPA given the value of EA
EFC_FCMD_EPA_AsEA == EFC_FCMD_EA
EFC_FCMD_EPA == 7
EFC_FCMD_SLB == 8
EFC_FCMD_CLB == 9
EFC_FCMD_GLB == 10
EFC_FCMD_SGPB == 11
EFC_FCMD_CGPB == 12
EFC_FCMD_GGPB == 13
EFC_FCMD_STUI == 14
EFC_FCMD_SPUI == 15
EFC_FCMD_ES == 17
EFC_FCMD_WUS == 18
EFC_FCMD_EUS == 19
EFC_FCMD_STUS == 20
EFC_FCMD_SPUS == 21

\* the EFC_FCMD_* macros in the order of efc.h:58-77
EFC_FCMD_Macros ==
    << EFC_FCMD_GETD, EFC_FCMD_WP, EFC_FCMD_WPL, EFC_FCMD_EWP, EFC_FCMD_EWPL,
       EFC_FCMD_EA, EFC_FCMD_EPA, EFC_FCMD_SLB, EFC_FCMD_CLB, EFC_FCMD_GLB,
       EFC_FCMD_SGPB, EFC_FCMD_CGPB, EFC_FCMD_GGPB, EFC_FCMD_STUI, EFC_FCMD_SPUI,
       EFC_FCMD_ES, EFC_FCMD_WUS, EFC_FCMD_EUS, EFC_FCMD_STUS, EFC_FCMD_SPUS >>
CommandCodes == { EFC_FCMD_Macros[k] : k \in 1..Len(EFC_FCMD_Macros) }
\* the command codes as words
CodeWords == { Word(v) : v \in CommandCodes }

FWP_KEY == 90

\* ------------------------------------ register layout (component_efc.h)
EEFC_FCR_FCMD_Pos == 0
EEFC_FCR_FCMD_Msk == Shl(Word(255), EEFC_FCR_FCMD_Pos)
EEFC_FCR_FARG_Pos == 8
EEFC_FCR_FARG_Msk == Shl(Word(65535), EEFC_FCR_FARG_Pos)
EEFC_FCR_FARG(value) == BitAnd(EEFC_FCR_FARG_Msk, Shl(value, EEFC_FCR_FARG_Pos))
EEFC_FCR_FKEY_Pos == 24
EEFC_FCR_FKEY_PASSWD == Shl(Word(90), EEFC_FCR_FKEY_Pos)
EEFC_FSR_FRDY == {0}
EEFC_FSR_FCMDE == {1}
EEFC_FSR_FLOCKE == {2}
EEFC_FSR_FLERR == {3}

\* variant: the command is not masked to its field
EEFC_FCR_FCMD_Unmasked(value) == Shl(value, EEFC_FCR_FCMD_Pos)
\* efc.c:51-53
EEFC_FCR_FCMD(value) == BitAnd(EEFC_FCR_FCMD_Msk, Shl(value, EEFC_FCR_FCMD_Pos))
EEFC_ERROR_FLAGS == BitOr(BitOr(EEFC_FSR_FLOCKE, EEFC_FSR_FCMDE), EEFC_FSR_FLERR)

\* the special-read-mode bit of EEFC_FMR, (0x1u << 16)
FMR_BIT16 == Shl(Word(1), 16)

\* ------------------------------------------------------------------ bounds
MaxSize == 2            \* largest ul_size the callers pass
BufSlack == 1           \* words of the caller's buffer beyond MaxSize

MaxPolls == 3           \* value at which the count of polls saturates

BufLen == MaxSize + BufSlack
BufIdx == 0..(BufLen - 1)

\* content of a buffer word the driver has not written
Fresh == 0
\* indeterminate content of an automatic variable before its first assignment
Uninit == {-1}

\* ------------------------------------------------------------- the inputs
\* (start, stop) pairs passed to efc_perform_read_sequence; the last pair
\* carries bits above the 8-bit command field
CmdPairs ==
    { <<Word(EFC_FCMD_STUI), Word(EFC_FCMD_SPUI)>>,
      <<Word(EFC_FCMD_STUS), Word(EFC_FCMD_SPUS)>>,
      <<BitOr(Word(EFC_FCMD_STUI), {8, 24}), BitOr(Word(EFC_FCMD_SPUI), {25, 31})>> }

\* command words passed to efc_perform_fcr: two well-formed ones and one
\* that lacks the protection key
FcrWords ==
    { BitOr(EEFC_FCR_FKEY_PASSWD, BitOr(EEFC_FCR_FARG(Word(0)), EEFC_FCR_FCMD(Word(EFC_FCMD_WP)))),
      BitOr(EEFC_FCR_FKEY_PASSWD, BitOr(EEFC_FCR_FARG(Word(3)), EEFC_FCR_FCMD(Word(EFC_FCMD_EA)))),
      BitOr(EEFC_FCR_FARG(Word(0)), EEFC_FCR_FCMD(Word(EFC_FCMD_WP))) }

\* read-window contents at p_ul_data
FlashImages == { [i \in BufIdx |-> 11 + i], [i \in BufIdx |-> 23 - i] }

\* EEFC_FMR values at power-up / as left by the caller (bit 8: wait states)
ModeValues == { {}, {8}, {16}, {8, 16} }

VARIABLES
    pc,             \* position of the driver
    FMR, FSR,       \* EEFC_FMR, EEFC_FSR
    hw, hwCmd,      \* controller: phase and command field being processed
    simErr,         \* error flags the controller raises on completion
    flash,          \* words readable at p_ul_data
    buf,            \* words at p_ul_buf
    bufNull,        \* p_ul_buf == NULL
    ul_cmd_st, ul_cmd_sp, ul_size, ul_fcr,   \* arguments
    ul_status, ul_cnt,                       \* locals
    ret,            \* value returned by the last call
    last,           \* "none", "rs" or "fcr": the current / last call
    fcrLog,         \* words written to EEFC_FCR during the call
    accs,           \* register accesses made during the call
    wlog,           \* buffer indices written during the call, in order
    fmrEntry,       \* EEFC_FMR at entry of the call
    firstReady,     \* first EEFC_FSR value read with FRDY set after a FCR write
    prevFcr,        \* the efc_perform_fcr call completed just before this one
    polls           \* EEFC_FSR reads of the polling loop in progress that
                    \* found it has to go on, saturating at MaxPolls

regs == <<FMR, FSR, hw, hwCmd>>
args == <<bufNull, ul_cmd_st, ul_cmd_sp, ul_size, ul_fcr>>
ghost == <<last, fcrLog, accs, wlog, fmrEntry, firstReady, prevFcr, polls>>
vars == <<pc, FMR, FSR, hw, hwCmd, simErr, flash, buf, bufNull,
          ul_cmd_st, ul_cmd_sp, ul_size, ul_fcr, ul_status, ul_cnt, ret,
          last, fcrLog, accs, wlog, fmrEntry, firstReady, prevFcr, polls>>

NoPrev == [valid |-> FALSE, w |-> {}, r |-> {}]

Init ==
    /\ pc = "Idle"
    /\ FMR \in ModeValues
    /\ FSR = EEFC_FSR_FRDY
    /\ hw = "idle"
    /\ hwCmd = {}
    /\ simErr \in SUBSET EEFC_ERROR_FLAGS
    /\ flash \in FlashImages
    /\ buf = [i \in BufIdx |-> Fresh]
    /\ bufNull = FALSE
    /\ ul_cmd_st = {} /\ ul_cmd_sp = {} /\ ul_size = 0 /\ ul_fcr = {}
    /\ ul_status = Uninit /\ ul_cnt = 0
    /\ ret = {}
    /\ last = "none"
    /\ fcrLog = <<>>
    /\ accs = {}
    /\ wlog = <<>>
    /\ fmrEntry = FMR
    /\ firstReady = Uninit
    /\ prevFcr = NoPrev
    /\ polls = 0

\* -------------------------------------------------------- the controller
StartCodes == { Word(EFC_FCMD_STUI), Word(EFC_FCMD_STUS) }
StopCodes == { Word(EFC_FCMD_SPUI), Word(EFC_FCMD_SPUS) }

HasKey(w) == Field(w, EEFC_FCR_FKEY_Pos, 8) = Word(90)
CodeOf(w) == Field(w, EEFC_FCR_FCMD_Pos, 8)

\* phase the controller enters when it takes up the command with code c
Accepted(c) == IF c \in StartCodes THEN "readmode" ELSE "busy"

\* Effect of a write of w to EEFC_FCR.  A word without the key is ignored.
\* An idle controller latches the command; FRDY falls with the write
\* (atomic) or in a later controller step.  In read mode only the stop
\* command is taken.  A controller that is busy ignores the write.
WriteFCR(w, atomic) ==
    IF ~HasKey(w) THEN UNCHANGED <<hw, hwCmd, FSR>>
    ELSE IF hw = "idle" THEN
            /\ hwCmd' = CodeOf(w)
            /\ IF atomic
                 THEN hw' = Accepted(CodeOf(w)) /\ FSR' = {}
                 ELSE hw' = "pending" /\ FSR' = FSR
    ELSE IF hw = "readmode" /\ CodeOf(w) \in StopCodes THEN
            /\ hwCmd' = CodeOf(w)
            /\ hw' = "stopping"
            /\ FSR' = FSR
    ELSE UNCHANGED <<hw, hwCmd, FSR>>

\* the controller takes up the latched command: FRDY and the sticky error
\* flags fall
HwAccept ==
    /\ hw = "pending"
    /\ hw' = Accepted(hwCmd)
    /\ FSR' = {}
    /\ UNCHANGED <<pc, FMR, hwCmd, simErr, flash, buf, args, ul_status, ul_cnt, ret, ghost>>

\* the controller completes the command: FRDY rises with the error flags
HwComplete ==
    /\ hw \in {"busy", "stopping"}
    /\ hw' = "idle"
    /\ FSR' = BitOr(EEFC_FSR_FRDY, simErr)
    /\ UNCHANGED <<pc, FMR, hwCmd, simErr, flash, buf, args, ul_status, ul_cnt, ret, ghost>>

\* ------------------------------------------- efc_perform_read_sequence
\* variant: the first poll waits for FRDY to be set, like the second
WaitFallAgain_AsRise(status) == BitAnd(status, EEFC_FSR_FRDY) # EEFC_FSR_FRDY
\* variant: the first poll reads EEFC_FSR once and goes on
WaitFallAgain_Never(status) == FALSE
\* condition of the first polling loop (efc.c:94)
WaitFallAgain(status) == BitAnd(status, EEFC_FSR_FRDY) = EEFC_FSR_FRDY

\* variant: EEFC_FSR is read once and not polled
WaitRiseAgain_Never(status) == FALSE
\* variant: the poll gives up after MaxPolls - 1 reads
WaitRiseAgain_TimesOut(status) ==
    BitAnd(status, EEFC_FSR_FRDY) # EEFC_FSR_FRDY /\ polls + 1 < MaxPolls
\* condition of the second polling loop (efc.c:113) and of efc.c:137
WaitRiseAgain(status) == BitAnd(status, EEFC_FSR_FRDY) # EEFC_FSR_FRDY

\* variant: the start command is passed as the argument as well
StartWord_InArg(cmd_st) ==
    BitOr(BitOr(EEFC_FCR_FKEY_PASSWD, EEFC_FCR_FARG(cmd_st)), EEFC_FCR_FCMD(cmd_st))
\* words written to EEFC_FCR (efc.c:86-87, efc.c:104-106)
StartWord(cmd_st) ==
    BitOr(BitOr(EEFC_FCR_FKEY_PASSWD, EEFC_FCR_FARG(Word(0))), EEFC_FCR_FCMD(cmd_st))
\* variant: the stop word is written without the protection key
StopWord_NoKey(cmd_sp) == BitOr(EEFC_FCR_FARG(Word(0)), EEFC_FCR_FCMD(cmd_sp))
StopWord(cmd_sp) ==
    BitOr(BitOr(EEFC_FCR_FKEY_PASSWD, EEFC_FCR_FARG(Word(0))), EEFC_FCR_FCMD(cmd_sp))

\* variant: bit 15 is set instead of bit 16
FmrSet_Bit15(fmr) == BitOr(fmr, Shl(Word(1), 15))
\* the two read-modify-writes of EEFC_FMR (efc.c:83, efc.c:115)
FmrSet(fmr) == BitOr(fmr, FMR_BIT16)
\* variant: the mode bit is left set
FmrClear_Forgotten(fmr) == fmr
\* variant: the register is masked with the bit instead of its complement
FmrClear_Unnegated(fmr) == BitAnd(fmr, FMR_BIT16)
FmrClear(fmr) == BitAnd(fmr, BitNot(FMR_BIT16))

\* variant: the copy loop runs one iteration too many
CopyMore_Inclusive(cnt, size) == cnt <= size
\* variant: the copy loop tests its condition after the body
CopyMore_TestedAfter(cnt, size) == cnt = 0 \/ cnt < size
\* condition of the copy loop (efc.c:99)
CopyMore(cnt, size) == cnt < size

\* variant: the absent buffer is reported as a general error
RetInvalid_General == Word(1)
\* value returned for an absent buffer (efc.c:80) and on success (efc.c:117)
RetInvalid == Word(EFC_RC_INVALID)
\* variant: the error flags of the last status are returned, as efc.c:139 does
RetOk_Flags == BitAnd(ul_status, EEFC_ERROR_FLAGS)
RetOk == Word(EFC_RC_OK)

\* one more read of EEFC_FSR after which the polling loop goes on
Polled == IF polls < MaxPolls THEN polls + 1 ELSE polls

\* ghost update on a read of EEFC_FSR
NoteRead(status) ==
    IF firstReady = Uninit /\ fcrLog # <<>> /\ EEFC_FSR_FRDY \subseteq status
      THEN status ELSE firstReady

\* entry of the call with the NULL test of efc.c:79-81; the caller hands
\* in a fresh buffer
RS_Entry(isNull, pair, size) ==
    /\ pc = "Idle"
    /\ bufNull' = isNull
    /\ ul_cmd_st' = pair[1]
    /\ ul_cmd_sp' = pair[2]
    /\ ul_size' = size
    /\ buf' = [i \in BufIdx |-> Fresh]
    /\ ul_status' = Uninit
    /\ ul_cnt' = 0
    /\ last' = "rs"
    /\ fcrLog' = <<>>
    /\ accs' = {}
    /\ wlog' = <<>>
    /\ fmrEntry' = FMR
    /\ firstReady' = Uninit
    /\ prevFcr' = NoPrev
    /\ polls' = 0
    /\ IF isNull
         THEN pc' = "Idle" /\ ret' = RetInvalid
         ELSE pc' = "rs_fmr_set" /\ ret' = ret
    /\ UNCHANGED <<FMR, FSR, hw, hwCmd, simErr, flash, ul_fcr>>

\* efc.c:83
RS_SetMode ==
    /\ pc = "rs_fmr_set"
    /\ FMR' = FmrSet(FMR)
    /\ accs' = accs \cup {"FMR_R", "FMR_W"}
    /\ pc' = "rs_fcr_start"
    /\ UNCHANGED <<FSR, hw, hwCmd, simErr, flash, buf, args, ul_status, ul_cnt, ret,
                   last, fcrLog, wlog, fmrEntry, firstReady, prevFcr, polls>>

\* efc.c:86-87
RS_WriteStart(atomic) ==
    /\ pc = "rs_fcr_start"
    /\ WriteFCR(StartWord(ul_cmd_st), atomic)
    /\ fcrLog' = Append(fcrLog, StartWord(ul_cmd_st))
    /\ polls' = 0
    /\ accs' = accs \cup {"FCR_W"}
    /\ pc' = "rs_wait_fall"
    /\ UNCHANGED <<FMR, simErr, flash, buf, args, ul_status, ul_cnt, ret,
                   last, wlog, fmrEntry, firstReady, prevFcr>>

\* efc.c:92-94, one iteration
RS_PollFall ==
    /\ pc = "rs_wait_fall"
    /\ ul_status' = FSR
    /\ accs' = accs \cup {"FSR_R"}
    /\ IF WaitFallAgain(FSR)
         THEN pc' = "rs_wait_fall" /\ ul_cnt' = ul_cnt /\ polls' = Polled
         ELSE pc' = "rs_copy" /\ ul_cnt' = 0 /\ polls' = 0
    /\ UNCHANGED <<regs, simErr, flash, buf, args, ret,
                   last, fcrLog, wlog, fmrEntry, firstReady, prevFcr>>

\* efc.c:99-101, one iteration or the exit of the loop
RS_Copy ==
    /\ pc = "rs_copy"
    /\ IF CopyMore(ul_cnt, ul_size)
         THEN /\ buf' = [buf EXCEPT ![ul_cnt] = flash[ul_cnt]]
              /\ wlog' = Append(wlog, ul_cnt)
              /\ ul_cnt' = ul_cnt + 1
              /\ pc' = "rs_copy"
         ELSE /\ pc' = "rs_fcr_stop"
              /\ UNCHANGED <<buf, wlog, ul_cnt>>
    /\ UNCHANGED <<regs, simErr, flash, args, ul_status, ret,
                   last, fcrLog, accs, fmrEntry, firstReady, prevFcr, polls>>

\* efc.c:104-106
RS_WriteStop ==
    /\ pc = "rs_fcr_stop"
    /\ WriteFCR(StopWord(ul_cmd_sp), FALSE)
    /\ fcrLog' = Append(fcrLog, StopWord(ul_cmd_sp))
    /\ polls' = 0
    /\ accs' = accs \cup {"FCR_W"}
    /\ firstReady' = Uninit
    /\ pc' = "rs_wait_rise"
    /\ UNCHANGED <<FMR, simErr, flash, buf, args, ul_status, ul_cnt, ret,
                   last, wlog, fmrEntry, prevFcr>>

\* efc.c:111-113, one iteration
RS_PollRise ==
    /\ pc = "rs_wait_rise"
    /\ ul_status' = FSR
    /\ accs' = accs \cup {"FSR_R"}
    /\ firstReady' = NoteRead(FSR)
    /\ IF WaitRiseAgain(FSR)
         THEN pc' = "rs_wait_rise" /\ polls' = Polled
         ELSE pc' = "rs_fmr_clr" /\ polls' = 0
    /\ UNCHANGED <<regs, simErr, flash, buf, args, ul_cnt, ret,
                   last, fcrLog, wlog, fmrEntry, prevFcr>>

\* efc.c:115-117
RS_ClearModeReturn ==
    /\ pc = "rs_fmr_clr"
    /\ FMR' = FmrClear(FMR)
    /\ accs' = accs \cup {"FMR_R", "FMR_W"}
    /\ ret' = RetOk
    /\ pc' = "Idle"
    /\ UNCHANGED <<FSR, hw, hwCmd, simErr, flash, buf, args, ul_status, ul_cnt,
                   last, fcrLog, wlog, fmrEntry, firstReady, prevFcr, polls>>

\* ------------------------------------------------------ efc_perform_fcr
\* variant: the status is returned without masking
FcrResult_Raw(status) == status
\* value returned (efc.c:139)
FcrResult(status) == BitAnd(status, EEFC_ERROR_FLAGS)

\* variant: the driver applies the protection key itself
FcrWord_Keyed(fcr) == BitOr(EEFC_FCR_FKEY_PASSWD, fcr)
\* word written to EEFC_FCR (efc.c:134)
FcrWord(fcr) == fcr

\* entry of the call
FCR_Entry(w) ==
    /\ pc = "Idle"
    /\ ul_fcr' = w
    /\ ul_status' = Uninit
    /\ last' = "fcr"
    /\ fcrLog' = <<>>
    /\ accs' = {}
    /\ wlog' = <<>>
    /\ fmrEntry' = FMR
    /\ firstReady' = Uninit
    /\ prevFcr' = IF last = "fcr" THEN [valid |-> TRUE, w |-> ul_fcr, r |-> ret]
                                  ELSE NoPrev
    /\ polls' = 0
    /\ pc' = "fcr_write"
    /\ UNCHANGED <<regs, simErr, flash, buf, bufNull, ul_cmd_st, ul_cmd_sp, ul_size,
                   ul_cnt, ret>>

\* efc.c:134
FCR_Write(atomic) ==
    /\ pc = "fcr_write"
    /\ WriteFCR(FcrWord(ul_fcr), atomic)
    /\ fcrLog' = Append(fcrLog, FcrWord(ul_fcr))
    /\ polls' = 0
    /\ accs' = accs \cup {"FCR_W"}
    /\ pc' = "fcr_wait"
    /\ UNCHANGED <<FMR, simErr, flash, buf, args, ul_status, ul_cnt, ret,
                   last, wlog, fmrEntry, firstReady, prevFcr>>

\* efc.c:135-139, one iteration, with the return when the loop ends
FCR_Poll ==
    /\ pc = "fcr_wait"
    /\ ul_status' = FSR
    /\ accs' = accs \cup {"FSR_R"}
    /\ firstReady' = NoteRead(FSR)
    /\ IF WaitRiseAgain(FSR)
         THEN pc' = "fcr_wait" /\ ret' = ret /\ polls' = Polled
         ELSE pc' = "Idle" /\ ret' = FcrResult(FSR) /\ polls' = 0
    /\ UNCHANGED <<regs, simErr, flash, buf, args, ul_cnt,
                   last, fcrLog, wlog, fmrEntry, prevFcr>>

\* ------------------------------------------------------- specifications
Driver(fcrAtomic) ==
    \/ \E isNull \in BOOLEAN, pair \in CmdPairs, size \in 0..MaxSize :
            RS_Entry(isNull, pair, size)
    \/ RS_SetMode
    \/ \E atomic \in BOOLEAN : RS_WriteStart(atomic)
    \/ RS_PollFall
    \/ RS_Copy
    \/ RS_WriteStop
    \/ RS_PollRise
    \/ RS_ClearModeReturn
    \/ \E w \in FcrWords : FCR_Entry(w)
    \/ \E atomic \in fcrAtomic : FCR_Write(atomic)
    \/ FCR_Poll

Controller == HwAccept \/ HwComplete

\* FRDY falls with the write of an ordinary command to EEFC_FCR
Next == Driver({TRUE}) \/ Controller
Spec == Init /\ [][Next]_vars

\* steps of a call in progress
Running(fcrAtomic) == pc # "Idle" /\ Driver(fcrAtomic)

\* the processor keeps executing a call in progress and the controller
\* keeps processing the command it holds
FairSpec ==
    /\ Init /\ [][Next]_vars
    /\ WF_vars(Running({TRUE}))
    /\ WF_vars(HwAccept)
    /\ WF_vars(HwComplete)

\* the processor keeps executing a call in progress; the controller may
\* stop responding
CpuFairSpec ==
    /\ Init /\ [][Next]_vars
    /\ WF_vars(Running({TRUE}))

\* FRDY falls with the write of an ordinary command or in a later step of
\* the controller
NextAsync == Driver(BOOLEAN) \/ Controller
AsyncSpec == Init /\ [][NextAsync]_vars

\* ============================================================ properties
RS_Returned == pc = "Idle" /\ last = "rs" /\ ~bufNull
RS_Rejected == pc = "Idle" /\ last = "rs" /\ bufNull
FCR_Returned == pc = "Idle" /\ last = "fcr"

\* C1: a read sequence with a non-null buffer that returns, returns
\* EFC_RC_OK with buf[i] = flash[i] for every i < ul_size, written in
\* increasing index order, every buffer word at index >= ul_size unwritten
\* and the source window unmodified.
C1_CopiesExactlyN ==
    RS_Returned =>
        /\ ret = Word(EFC_RC_OK)
        /\ \A i \in BufIdx : buf[i] = IF i < ul_size THEN flash[i] ELSE Fresh
        /\ wlog = [k \in 1..ul_size |-> k - 1]
        /\ flash \in FlashImages
C1_Witness ==
    /\ RS_Returned
    /\ ul_size = MaxSize
    /\ buf[MaxSize - 1] = flash[MaxSize - 1]

\* C2: a read sequence with a null buffer returns EFC_RC_INVALID without
\* any register access: no FMR or FCR write, no FSR read, FMR as at entry.
C2_NullTouchesNothing ==
    RS_Rejected =>
        /\ ret = Word(EFC_RC_INVALID)
        /\ accs = {}
        /\ fcrLog = <<>>
        /\ wlog = <<>>
        /\ FMR = fmrEntry
C2_Witness ==
    /\ RS_Rejected
    /\ FMR_BIT16 \subseteq FMR
    /\ ul_size = MaxSize

\* C3 (as stated): on return of a successful read sequence bit 16 of FMR
\* equals bit 16 of FMR at entry, for every FMR value at entry.
C3_ModeBitAsAtEntry ==
    RS_Returned => ((FMR_BIT16 \subseteq FMR) <=> (FMR_BIT16 \subseteq fmrEntry))

\* C4: the value efc_perform_fcr returns is the error-flag subset of the
\* first FSR value read with FRDY set after the FCR write; FRDY is never
\* in it, and it is 0 exactly when none of the three flags is in that read.
C4_ResultIsErrorSubset ==
    FCR_Returned =>
        /\ firstReady # Uninit
        /\ ret = firstReady \cap (EEFC_FSR_FLOCKE \cup EEFC_FSR_FCMDE \cup EEFC_FSR_FLERR)
        /\ ret \cap EEFC_FSR_FRDY = {}
        /\ (ret = Word(0)) <=>
             (\A f \in {EEFC_FSR_FLOCKE, EEFC_FSR_FCMDE, EEFC_FSR_FLERR} :
                 ~(f \subseteq firstReady))
C4_Witness ==
    /\ FCR_Returned
    /\ EEFC_FSR_FRDY \subseteq firstReady
    /\ ret = EEFC_FSR_FLOCKE \cup EEFC_FSR_FLERR

\* C5: while FRDY stays set after the start command the read sequence stays
\* in the first poll: no buffer word is written, the stop command is not
\* written, the mode bit stays set and the call does not return.
BlockedAtStart ==
    /\ pc = "rs_wait_fall"
    /\ \A i \in BufIdx : buf[i] = Fresh
    /\ fcrLog = <<StartWord(ul_cmd_st)>>
    /\ FMR_BIT16 \subseteq FMR
C5_BlockedWhileReady ==
    []((pc = "rs_wait_fall" /\ [](EEFC_FSR_FRDY \subseteq FSR)) => []BlockedAtStart)
C5_Witness ==
    /\ pc = "rs_wait_fall"
    /\ ul_status # Uninit
    /\ EEFC_FSR_FRDY \subseteq ul_status
    /\ EEFC_FSR_FRDY \subseteq FSR
    /\ ul_size > 0

KeyField(w) == Field(w, 24, 8)

\* C6 (as stated): every word written to EEFC_FCR by either function has
\* 0x5A in bits 31:24.
C6_EveryWriteKeyed ==
    \A k \in 1..Len(fcrLog) : KeyField(fcrLog[k]) = Word(FWP_KEY)

\* C6 (amended): every word efc_perform_read_sequence writes to EEFC_FCR
\* has 0x5A in bits 31:24 whatever its arguments; the word efc_perform_fcr
\* writes has it exactly when the caller's ul_fcr has it.
C6_KeyedAsTheCallerKeys ==
    \A k \in 1..Len(fcrLog) :
        /\ last = "rs" => KeyField(fcrLog[k]) = Word(FWP_KEY)
        /\ last = "fcr" =>
              ((KeyField(fcrLog[k]) = Word(FWP_KEY)) <=> (KeyField(ul_fcr) = Word(FWP_KEY)))
C6_Witness ==
    /\ last = "rs"
    /\ Len(fcrLog) = 2
    /\ 24 \in ul_cmd_st
    /\ 31 \in ul_cmd_sp

\* C7: a call of efc_perform_fcr writes EEFC_FCR once, with ul_fcr as
\* passed, leaves EEFC_FMR alone and otherwise only reads EEFC_FSR.
C7_OneUnmodifiedWrite ==
    last = "fcr" =>
        /\ Len(fcrLog) <= 1
        /\ \A k \in 1..Len(fcrLog) : fcrLog[k] = ul_fcr
        /\ accs \subseteq {"FCR_W", "FSR_R"}
        /\ FMR = fmrEntry
        /\ pc \in {"fcr_wait", "Idle"} => fcrLog = <<ul_fcr>>
        /\ pc = "Idle" => accs = {"FCR_W", "FSR_R"}
C7_Witness ==
    /\ FCR_Returned
    /\ ret = EEFC_ERROR_FLAGS
    /\ ~HasKey(ul_fcr)

\* C8: two consecutive calls of efc_perform_fcr with the same keyed command
\* word return the same value.
C8_SameWordSameStatus ==
    (FCR_Returned /\ prevFcr.valid /\ prevFcr.w = ul_fcr /\ HasKey(ul_fcr))
        => ret = prevFcr.r
C8_Witness ==
    /\ FCR_Returned
    /\ prevFcr.valid
    /\ prevFcr.w = ul_fcr
    /\ HasKey(ul_fcr)
    /\ ret # Word(0)

\* C9: on return of efc_perform_fcr and of a successful read sequence the
\* last EEFC_FSR value read has FRDY set; after the read sequence bit 16 of
\* EEFC_FMR is clear; a call starts with its locals unassigned.
C9_ReturnsIdle ==
    /\ (FCR_Returned \/ RS_Returned) => EEFC_FSR_FRDY \subseteq ul_status
    /\ RS_Returned => ~(FMR_BIT16 \subseteq FMR)
    /\ pc \in {"rs_fmr_set", "fcr_write"} => ul_status = Uninit
C9_Witness ==
    /\ RS_Returned
    /\ FMR_BIT16 \subseteq fmrEntry
    /\ ul_status # EEFC_FSR_FRDY

\* C10: with the processor and the controller making progress, every call
\* of either function returns.
C10_CallsReturn == (pc # "Idle") ~> (pc = "Idle")
C10_Witness ==
    /\ pc = "rs_wait_rise"
    /\ ul_size = MaxSize
    /\ hw = "stopping"

\* C11: the waits for FRDY to rise have no timeout.  While FRDY stays clear
\* after the EEFC_FCR write of efc_perform_fcr, or after the stop command of
\* the read sequence, the call stays in its poll, the count of polls passes
\* every bound, and in the read sequence bit 16 of EEFC_FMR stays set.
ReadyStaysClear == [](~(EEFC_FSR_FRDY \subseteq FSR))
C11_NoTimeout ==
    /\ []((pc = "fcr_wait" /\ ReadyStaysClear)
            => ([](pc = "fcr_wait") /\ <>(polls = MaxPolls)))
    /\ []((pc = "rs_wait_rise" /\ ReadyStaysClear)
            => ([](pc = "rs_wait_rise" /\ FMR_BIT16 \subseteq FMR) /\ <>(polls = MaxPolls)))
C11_Witness ==
    /\ pc \in {"fcr_wait", "rs_wait_rise"}
    /\ polls = MaxPolls
    /\ ~(EEFC_FSR_FRDY \subseteq FSR)
    /\ ~(EEFC_FSR_FRDY \subseteq ul_status)

\* command codes between the smallest and the largest that no macro defines
CodeGaps ==
    { v \in 0..255 : /\ v \notin CommandCodes
                     /\ \E a \in CommandCodes : a < v
                     /\ \E b \in CommandCodes : v < b }

\* every command code written to EEFC_FCR is one of the enumeration
WrittenCodesEnumerated ==
    \A k \in 1..Len(fcrLog) : CodeOf(fcrLog[k]) \in CodeWords

\* C12 (as stated): the command enumeration of efc.h, which holds every
\* code written to EEFC_FCR, has exactly 18 distinct values, all in
\* 0x00..0x15, and is not a contiguous range.
C12_EighteenCodes ==
    /\ WrittenCodesEnumerated
    /\ Cardinality(CommandCodes) = 18
    /\ CommandCodes \subseteq 0..21
    /\ CodeGaps # {}

\* C12 (amended): the command enumeration of efc.h, which holds every code
\* written to EEFC_FCR, has exactly 20 distinct values, one per macro, all
\* in 0x00..0x15, and is not a contiguous range (0x06 and 0x10 are not
\* defined).
C12_TwentyCodes ==
    /\ WrittenCodesEnumerated
    /\ Len(EFC_FCMD_Macros) = 20
    /\ Cardinality(CommandCodes) = 20
    /\ CommandCodes \subseteq 0..21
    /\ CodeGaps = {6, 16}
C12_Witness ==
    /\ last = "rs"
    /\ Len(fcrLog) = 2
    /\ \A k \in 1..2 : CodeOf(fcrLog[k]) \in CodeWords
    /\ Cardinality(CommandCodes) = 20

\* C13: the read sequence does its register operations in the order of
\* steps 1-7.  The start command is written with bit 16 of EEFC_FMR set by
\* the driver; a buffer word is written only after the start write, before
\* the stop write and with the last EEFC_FSR value read showing FRDY clear;
\* the stop command is written only when words 0..ul_size-1 are copied; bit
\* 16 is cleared only after the stop write, with the last EEFC_FSR value
\* read, the first after the stop write with FRDY set, showing FRDY set.
StartWritten == last = "rs" /\ fcrLog = <<>> /\ Len(fcrLog') = 1
WordWritten == last = "rs" /\ wlog' # wlog /\ wlog' # <<>>
StopWritten == last = "rs" /\ Len(fcrLog) = 1 /\ Len(fcrLog') = 2
ModeCleared == last = "rs" /\ FMR_BIT16 \subseteq FMR /\ ~(FMR_BIT16 \subseteq FMR')
C13_StepOrder ==
    /\ StartWritten => /\ FMR_BIT16 \subseteq FMR
                       /\ "FMR_W" \in accs
                       /\ ul_status = Uninit
                       /\ wlog = <<>>
    /\ WordWritten =>  /\ Len(fcrLog) = 1
                       /\ ul_status # Uninit
                       /\ ~(EEFC_FSR_FRDY \subseteq ul_status)
    /\ StopWritten =>  /\ wlog = [k \in 1..ul_size |-> k - 1]
                       /\ ul_status # Uninit
                       /\ ~(EEFC_FSR_FRDY \subseteq ul_status)
    /\ ModeCleared =>  /\ Len(fcrLog) = 2
                       /\ firstReady # Uninit
                       /\ ul_status = firstReady
                       /\ EEFC_FSR_FRDY \subseteq ul_status
C13_OrderedSteps == [][C13_StepOrder]_vars
C13_Witness ==
    /\ RS_Returned
    /\ ~(FMR_BIT16 \subseteq fmrEntry)
    /\ Len(wlog) = MaxSize
    /\ Len(fcrLog) = 2
    /\ firstReady # EEFC_FSR_FRDY

\* the word with key 0x5A in bits 31:24, argument 0 and the code c in the
\* 8-bit command field
KeyedCommand(c) == Shl(Word(FWP_KEY), 24) \cup (c \cap (0..7))

\* C14: a successful read sequence writes EEFC_FCR exactly twice: first
\* key 0x5A, argument 0 and code ul_cmd_st, then key 0x5A, argument 0 and
\* code ul_cmd_sp, for commands of the enumeration; a command value wider
\* than the 8-bit field is written reduced to its low 8 bits.  No other
\* value is written at any point of the call.
C14_TwoCommandWrites ==
    (last = "rs" /\ ~bufNull) =>
        /\ fcrLog \in { <<>>,
                        <<KeyedCommand(ul_cmd_st)>>,
                        <<KeyedCommand(ul_cmd_st), KeyedCommand(ul_cmd_sp)>> }
        /\ pc = "Idle" => Len(fcrLog) = 2
        /\ \A k \in 1..Len(fcrLog) :
              /\ KeyField(fcrLog[k]) = Word(FWP_KEY)
              /\ Field(fcrLog[k], 8, 16) = Word(0)
              /\ CodeOf(fcrLog[k]) \in CodeWords
        /\ (Len(fcrLog) >= 1 /\ ul_cmd_st \subseteq 0..7) => CodeOf(fcrLog[1]) = ul_cmd_st
        /\ (Len(fcrLog) = 2 /\ ul_cmd_sp \subseteq 0..7) => CodeOf(fcrLog[2]) = ul_cmd_sp
C14_Witness ==
    /\ RS_Returned
    /\ ul_cmd_st = Word(EFC_FCMD_STUS)
    /\ fcrLog = <<KeyedCommand(Word(EFC_FCMD_STUS)), KeyedCommand(Word(EFC_FCMD_SPUS))>>
    /\ Len(wlog) = MaxSize

\* C15 (as stated): efc_perform_fcr does not return while the command it
\* wrote is latched but not taken up, or in progress.
C15_ReturnsAfterCompletion ==
    FCR_Returned => hw \notin {"pending", "busy"}

\* C16: bit 16 of EEFC_FMR is set from the write of the start command up
\* to the EEFC_FSR read that ends the second poll, and so at every copy.
C16_ModeBitHeld ==
    pc \in {"rs_fcr_start", "rs_wait_fall", "rs_copy", "rs_fcr_stop", "rs_wait_rise",
            "rs_fmr_clr"}
        => FMR_BIT16 \subseteq FMR
C16_Witness ==
    /\ pc = "rs_copy"
    /\ ul_cnt = MaxSize - 1
    /\ ul_size = MaxSize
    /\ ~(FMR_BIT16 \subseteq fmrEntry)
    /\ FMR_BIT16 \subseteq FMR

\* C17: the read sequence returns 0 whenever it returns with a non-null
\* buffer, also when the EEFC_FSR values it read carry error flags.
C17_ErrorsNotReturned ==
    RS_Returned => (ret = Word(0) /\ ret \cap EEFC_ERROR_FLAGS = {})
C17_Witness ==
    /\ RS_Returned
    /\ ret = Word(0)
    /\ ul_status = firstReady
    /\ EEFC_ERROR_FLAGS \subseteq ul_status

\* C18: during and after a read sequence every bit of EEFC_FMR other than
\* bit 16 has the value it had at entry.
C18_OtherModeBitsKept ==
    last = "rs" => (FMR \ FMR_BIT16) = (fmrEntry \ FMR_BIT16)
C18_Witness ==
    /\ RS_Returned
    /\ 8 \in fmrEntry
    /\ FMR = {8}

\* C19: with a non-null buffer and ul_size = 0 the read sequence does the
\* whole handshake (both EEFC_FMR updates, both command writes, both polls)
\* and returns 0 without executing the copy statement.
C19_EmptyReadHandshakes ==
    (RS_Returned /\ ul_size = 0) =>
        /\ ret = Word(EFC_RC_OK)
        /\ accs = {"FMR_R", "FMR_W", "FCR_W", "FSR_R"}
        /\ fcrLog = <<StartWord(ul_cmd_st), StopWord(ul_cmd_sp)>>
        /\ firstReady # Uninit
        /\ EEFC_FSR_FRDY \subseteq ul_status
        /\ ~(FMR_BIT16 \subseteq FMR)
        /\ wlog = <<>>
        /\ \A i \in BufIdx : buf[i] = Fresh
C19_Witness ==
    /\ RS_Returned
    /\ ul_size = 0
    /\ Len(fcrLog) = 2
    /\ hw = "idle"

====
